---- MODULE Spec2Model ----
(***************************************************************************)
(* kube-cleanup: the validation passes of src/main.go as a state machine.  *)
(*                                                                         *)
(* src/main.go holds two revisions of the program: the combined `run`      *)
(* (ingress pass followed by the pod-ownership pass, lines 123-342) and    *)
(* the per-kind validators validateNamespaces / validateIngresses /        *)
(* validateServices / validateDeployments (lines 605-798).  One command is *)
(* chosen in Init together with a cluster snapshot; the actions walk the   *)
(* listing exactly in the order of the Go loops.                           *)
(***************************************************************************)
EXTENDS Integers, Sequences, FiniteSets, TLC

VARIABLES
    cmd,          \* which command runs: "ns" | "ing" | "svc" | "dep" | "run"
    namespace,    \* the -n flag ("" = all namespaces)
    failing,      \* dependent accessor operations that answer with a transport error
    namespaces,   \* cluster snapshot: Namespace objects
    ingresses,    \* cluster snapshot: Ingress objects
    services,     \* cluster snapshot: Service objects
    deployments,  \* cluster snapshot: Deployment objects
    pods,         \* cluster snapshot: Pod objects
    replicaSets,  \* cluster snapshot: ReplicaSet objects
    items,        \* the listing the running loop ranges over
    orphans,      \* the inventory under construction
    pc,           \* "start" | "loop" | "pods" | "done" | "exit"
    i, r, p,      \* loop positions: item, rule / owner reference, path
    calls,        \* dependent accessor calls issued so far in this pass
    added,        \* violations recorded so far in this pass, in order
    pass,         \* 1 or 2: the command is run twice on the same snapshot
    first,        \* the inventory the first pass returned
    report        \* what the command printed as its report: <<>> or <<the report>>

snapshot == <<cmd, namespace, failing, namespaces, ingresses, services,
              deployments, pods, replicaSets>>
vars == <<cmd, namespace, failing, namespaces, ingresses, services,
          deployments, pods, replicaSets, items, orphans, pc, i, r, p, calls,
          added, pass, first, report>>

(***************************************************************************)
(* Bounds of the model.                                                    *)
(***************************************************************************)
MaxNamespaces == 2     \* namespaces in a listing
MaxFinalizers == 2     \* finalizers on a namespace
MaxServices == 2       \* services in a listing
MaxConditions == 2     \* status conditions on a deployment
MaxRules == 2          \* rules in an ingress listing, over all its ingresses
MaxPaths == 1          \* paths in a rule
MaxOwners == 2         \* owner references on a pod

(***************************************************************************)
(* Go values.                                                              *)
(***************************************************************************)
\* A Go map: a function with a finite domain.  make(map...) and nil read alike.
EmptyMap == [x \in {} |-> x]

MapPut(m, k, v) == [x \in (DOMAIN m) \cup {k} |-> IF x = k THEN v ELSE m[x]]

\* The zero ResourceReference (a struct field that was not set).
NoReference == [Name |-> "", Kind |-> "", LabelSelector |-> ""]

\* Sequences over S of length at most n.
SeqUpTo(S, n) == UNION {[1..k -> S] : k \in 0..n}

\* strconv / fmt "%d": the decimal digits of a non-negative integer.
RECURSIVE Itoa(_)
Itoa(n) ==
    LET d == <<"0", "1", "2", "3", "4", "5", "6", "7", "8", "9">>[(n % 10) + 1]
    IN  IF n < 10 THEN <<d>> ELSE Itoa(n \div 10) \o <<d>>

\* A string built by concatenation or Sprintf is kept as the sequence of its parts,
\* so every Reason is a sequence of strings.
Text(s) == <<s>>

\* Mutant: only the first element is compared.
contains_FirstOnly(s, array) == Len(array) > 0 /\ array[1] = s

contains(s, array) == \E k \in 1..Len(array) : array[k] = s

(***************************************************************************)
(* The inventory.                                                          *)
(***************************************************************************)
\* Mutant: the map of the previous pass is used again.
NewInventory_Leftover == orphans

\* make(map[string]ResourceInventoryList)
NewInventory == EmptyMap

\* Mutant: an entry that exists is kept, the new violation is dropped.
addInventoryViolation_KeepFirst(inv, ns, name, reason) ==
    IF ns \in DOMAIN inv /\ name \in DOMAIN inv[ns].Items THEN inv
    ELSE LET inventoryList == IF ns \in DOMAIN inv THEN inv[ns] ELSE [Items |-> EmptyMap]
         IN  MapPut(inv, ns, [Items |-> MapPut(inventoryList.Items, name, reason)])

addInventoryViolation(inv, ns, name, reason) ==
    LET inventoryList == IF ns \in DOMAIN inv THEN inv[ns] ELSE [Items |-> EmptyMap]
    IN  MapPut(inv, ns, [Items |-> MapPut(inventoryList.Items, name, reason)])

InventoryViolation(name, kind, reference, reason) ==
    [Name |-> name, Kind |-> kind, Reference |-> reference, Reason |-> reason]

\* The keys (namespace, name) of an inventory.
Keys(inv) == UNION {{<<ns, n>> : n \in DOMAIN inv[ns].Items} : ns \in DOMAIN inv}

\* One recorded violation: the inventory is updated and the call is logged.
Record(ns, name, v) ==
    /\ orphans' = addInventoryViolation(orphans, ns, name, v)
    /\ added' = Append(added, <<ns, name, v>>)

\* Mutant: a step that finds nothing clears the inventory.
NoRecord_Clear == orphans' = EmptyMap /\ added' = added

NoRecord == UNCHANGED <<orphans, added>>

(***************************************************************************)
(* The resource accessor (clientset), answering from the snapshot.         *)
(***************************************************************************)
NoErr == "nil"

\* <kind>(ns).List(...): ns = "" lists every namespace.
InNamespace(ns, list) == SelectSeq(list, LAMBDA o : ns = "" \/ o.Namespace = ns)

\* labels.SelectorFromSet(set).String(): the "k=v" requirements sorted by key and
\* joined with commas; the empty set selects everything and prints as "".
SelectorString(sel) ==
    CASE sel = {} -> ""
      [] sel = {"app=api"} -> "app=api"
      [] sel = {"tier=web"} -> "tier=web"
      [] sel = {"app=api", "tier=web"} -> "app=api,tier=web"

\* clientset.CoreV1().Pods(ns).List(listOptions)
PodsList(ns, sel) ==
    IF "pods.list" \in failing
    THEN [err |-> "pods.list: i/o timeout", Items |-> <<>>]
    ELSE [err |-> NoErr,
          Items |-> SelectSeq(InNamespace(ns, pods), LAMBDA pod : sel \subseteq pod.Labels)]

\* A logged call: the operation, its namespace and argument, and the resource (by)
\* whose validation issued it.
PodsListCall(by, ns, sel) ==
    [op |-> "pods.list", ns |-> ns, arg |-> SelectorString(sel),
     by |-> <<by.Namespace, by.Name>>]

\* <kind>(ns).Get(name, ...) on a snapshot list: the object, or an error.
Get(op, list, ns, name) ==
    LET hit == {k \in 1..Len(list) : list[k].Namespace = ns /\ list[k].Name = name}
    IN  IF op \in failing THEN [err |-> "i/o timeout", found |-> FALSE]
        ELSE IF hit = {} THEN [err |-> "not found", found |-> FALSE]
        ELSE [err |-> NoErr, found |-> TRUE, obj |-> list[CHOOSE k \in hit : TRUE]]

\* clientset.CoreV1().Services(ns).Get(name, ...)
ServicesGet(ns, name) == Get("services.get", services, ns, name)
\* clientset.ExtensionsV1beta1().ReplicaSets(ns).Get(name, ...)
ReplicaSetsGet(ns, name) == Get("replicasets.get", replicaSets, ns, name)
\* clientset.ExtensionsV1beta1().Deployments(ns).Get(name, ...)
DeploymentsGet(ns, name) == Get("deployments.get", deployments, ns, name)

GetCall(by, op, ns, name) ==
    [op |-> op, ns |-> ns, arg |-> name, by |-> <<by.Namespace, by.Name>>]

(***************************************************************************)
(* Snapshots.                                                              *)
(***************************************************************************)
\* The strictly increasing index sequences of length n into 1..m: a listing comes
\* back in key order and holds no key twice.
Increasing(m, n) == {s \in [1..n -> 1..m] : \A k \in 1..(n - 1) : s[k] < s[k + 1]}

Id(ns, name) == [ns |-> ns, name |-> name]

NamespaceIds == <<"legacy", "prod", "shop">>
NamespaceShapes ==
    [Phase : {"Active", "Terminating"},
     Finalizers : SeqUpTo({"kubernetes", "foregroundDeletion"}, MaxFinalizers)]
\* A Namespace is cluster-scoped: its metadata.namespace is empty.
NamespaceObject(id, sh) ==
    [Namespace |-> "", Name |-> id, Phase |-> sh.Phase, Finalizers |-> sh.Finalizers]

ServiceIds == <<Id("default", "api"), Id("default", "kubernetes"),
                Id("shop", "api"), Id("shop", "kubernetes")>>
ExternalNames == {"example.com", "10.0.0.1", "::1"}
\* Fields a type does not use keep their zero value.
ServiceShapes ==
    [Type : {"ClusterIP"}, Selector : {{}, {"app=api"}, {"app=api", "tier=web"}},
     Ports : {{80}}, LBIngress : {0}, ExternalName : {""}]
    \cup [Type : {"NodePort", "LoadBalancer"}, Selector : {{}, {"app=api"}}, Ports : {{80}},
          LBIngress : {0}, ExternalName : {""}]
    \cup [Type : {"LoadBalancer"}, Selector : {{}, {"app=api"}}, Ports : {{80}},
          LBIngress : {1}, ExternalName : {""}]
    \cup [Type : {"ExternalName"}, Selector : {{}}, Ports : {{}},
          LBIngress : {0}, ExternalName : ExternalNames]
    \cup [Type : {"ExternalName"}, Selector : {{"app=api"}}, Ports : {{}},
          LBIngress : {0}, ExternalName : {"10.0.0.1"}]
ServiceObject(id, sh) ==
    [Namespace |-> id.ns, Name |-> id.name, Type |-> sh.Type, Selector |-> sh.Selector,
     Ports |-> sh.Ports, LBIngress |-> sh.LBIngress, ExternalName |-> sh.ExternalName]

PodObject(ns, name, labels, owners) ==
    [Namespace |-> ns, Name |-> name, Labels |-> labels, OwnerReferences |-> owners]
\* The pods a service's selector query can meet.
WorkloadPods ==
    {<<>>,
     <<PodObject("default", "api-1", {"app=api", "tier=web"}, <<>>)>>,
     <<PodObject("shop", "api-2", {"app=api"}, <<>>)>>,
     <<PodObject("default", "api-1", {"app=api", "tier=web"}, <<>>),
       PodObject("shop", "api-2", {"app=api"}, <<>>)>>}

DeploymentIds == <<Id("prod", "worker"), Id("shop", "worker")>>
Condition(type, status, reason, message) ==
    [Type |-> type, Status |-> status, Reason |-> reason, Message |-> message]
Conditions ==
    {Condition("Available", "False", "MinimumReplicasUnavailable",
               "Deployment does not have minimum availability."),
     Condition("Progressing", "False", "ProgressDeadlineExceeded",
               "ReplicaSet has timed out progressing."),
     Condition("Available", "True", "MinimumReplicasAvailable",
               "Deployment has minimum availability.")}
DeploymentShapes ==
    [Replicas : {3}, ReadyReplicas : {0, 3}, Labels : {{}, {"app=api"}},
     Conditions : SeqUpTo(Conditions, MaxConditions)]
    \cup [Replicas : {0}, ReadyReplicas : {0}, Labels : {{}, {"app=api"}},
          Conditions : SeqUpTo(Conditions, MaxConditions)]
DeploymentObject(id, sh) ==
    [Namespace |-> id.ns, Name |-> id.name, Replicas |-> sh.Replicas,
     ReadyReplicas |-> sh.ReadyReplicas, Labels |-> sh.Labels,
     Conditions |-> sh.Conditions]

IngressIds == <<Id("prod", "web"), Id("shop", "web")>>
Backends ==
    {[ServiceName |-> "cart", ServicePort |-> 80],
     [ServiceName |-> "api", ServicePort |-> 80],
     [ServiceName |-> "api", ServicePort |-> 8080]}
\* rule.HTTP == nil is HasHTTP = FALSE.
RuleShapes ==
    {[HasHTTP |-> FALSE, Paths |-> <<>>]}
    \cup {[HasHTTP |-> TRUE, Paths |-> ps] : ps \in SeqUpTo(Backends, MaxPaths)}
\* The rule lists of n ingresses that hold at most budget rules together.
RECURSIVE RuleLists(_, _)
RuleLists(n, budget) ==
    IF n = 0 THEN {<<>>}
    ELSE UNION {{<<rules>> \o rest : rules \in [1..a -> RuleShapes],
                                     rest \in RuleLists(n - 1, budget - a)}
                : a \in 0..budget}
\* The services the ingress backends are resolved against.
BackendServices ==
    <<ServiceObject(Id("prod", "api"),
                    [Type |-> "ClusterIP", Selector |-> {}, Ports |-> {8080},
                     LBIngress |-> 0, ExternalName |-> ""]),
      ServiceObject(Id("shop", "api"),
                    [Type |-> "ClusterIP", Selector |-> {"app=api"}, Ports |-> {80, 443},
                     LBIngress |-> 0, ExternalName |-> ""])>>

\* The pod pass: pods, their owners, and the owners' owners.
OwnerReference(kind, name) == [Kind |-> kind, Name |-> name]
PodIds == <<Id("kube-system", "dns"), Id("shop", "api-1")>>
PodShapes ==
    [Labels : {{"app=api"}},
     OwnerReferences : SeqUpTo({OwnerReference("ReplicaSet", "rs-api"),
                                OwnerReference("ReplicaSet", "rs-old"),
                                OwnerReference("ReplicaSet", "rs-gone"),
                                OwnerReference("DaemonSet", "ds")}, MaxOwners)]
PodOf(id, sh) == PodObject(id.ns, id.name, sh.Labels, sh.OwnerReferences)
OwnerReplicaSets ==
    <<[Namespace |-> "shop", Name |-> "rs-api",
       OwnerReferences |-> <<OwnerReference("Deployment", "api")>>],
      [Namespace |-> "shop", Name |-> "rs-old",
       OwnerReferences |-> <<OwnerReference("Deployment", "api"),
                             OwnerReference("Deployment", "old")>>]>>
OwnerDeployments ==
    <<DeploymentObject(Id("shop", "api"),
                       [Replicas |-> 3, ReadyReplicas |-> 3, Labels |-> {"app=api"},
                        Conditions |-> <<>>])>>

Commands == {"ns", "ing", "svc", "dep", "run"}

\* v is a listing of at most max objects: identities ids (in key order), each with
\* a shape.
IsListing(v, ids, shapes, max, Obj(_, _)) ==
    \E n \in 0..max : \E ix \in Increasing(Len(ids), n) : \E sh \in [1..n -> shapes] :
        v = [k \in 1..n |-> Obj(ids[ix[k]], sh[k])]

IsIngressListing(v) ==
    \E n \in 0..Len(IngressIds) : \E ix \in Increasing(Len(IngressIds), n) :
      \E rl \in RuleLists(n, MaxRules) :
        v = [k \in 1..n |-> [Namespace |-> IngressIds[ix[k]].ns,
                             Name |-> IngressIds[ix[k]].name,
                             Rules |-> rl[k]]]

InitNamespaces ==
    /\ cmd = "ns"
    /\ namespace = ""
    /\ IsListing(namespaces, NamespaceIds, NamespaceShapes, MaxNamespaces, NamespaceObject)
    /\ ingresses = <<>> /\ services = <<>> /\ deployments = <<>>
    /\ pods = <<>> /\ replicaSets = <<>>
    /\ failing = {}

InitIngresses ==
    /\ cmd = "ing"
    /\ namespace \in {"", "shop"}
    /\ IsIngressListing(ingresses)
    /\ services = BackendServices
    /\ namespaces = <<>> /\ deployments = <<>> /\ pods = <<>> /\ replicaSets = <<>>
    /\ failing \in {{}, {"services.get"}}

InitServices ==
    /\ cmd = "svc"
    /\ namespace \in {"", "shop"}
    /\ IsListing(services, ServiceIds, ServiceShapes, MaxServices, ServiceObject)
    /\ pods \in WorkloadPods
    /\ namespaces = <<>> /\ ingresses = <<>> /\ deployments = <<>> /\ replicaSets = <<>>
    /\ failing \in {{}, {"pods.list"}}

InitDeployments ==
    /\ cmd = "dep"
    /\ namespace \in {"", "shop"}
    /\ IsListing(deployments, DeploymentIds, DeploymentShapes, Len(DeploymentIds),
                 DeploymentObject)
    /\ namespaces = <<>> /\ ingresses = <<>> /\ services = <<>>
    /\ pods = <<>> /\ replicaSets = <<>>
    /\ failing = {}

\* The snapshots of the combined run: the ingress pass varies over few pods, or the
\* pod pass varies over few ingresses.
InitRun ==
    /\ cmd = "run"
    /\ namespace = ""
    /\ services = BackendServices
    /\ deployments = OwnerDeployments
    /\ replicaSets = OwnerReplicaSets
    /\ namespaces = <<>>
    /\ \/ /\ IsIngressListing(ingresses)
          /\ pods \in {<<>>, <<PodObject("shop", "api-1", {"app=api"},
                                         <<OwnerReference("ReplicaSet", "rs-api")>>)>>}
          /\ failing \in {{}, {"services.get"}, {"pods.list"}}
       \/ /\ ingresses \in {<<>>, <<[Namespace |-> "shop", Name |-> "web",
                                     Rules |-> <<[HasHTTP |-> FALSE, Paths |-> <<>>]>>]>>}
          /\ IsListing(pods, PodIds, PodShapes, Len(PodIds), PodOf)
          /\ failing \in {{}, {"replicasets.get"}, {"deployments.get"}}

Init ==
    /\ \/ InitNamespaces
       \/ InitIngresses
       \/ InitServices
       \/ InitDeployments
       \/ InitRun
    /\ cmd \in Commands
    /\ items = <<>>
    /\ orphans = EmptyMap
    /\ pc = "start"
    /\ i = 1 /\ r = 1 /\ p = 1
    /\ calls = <<>>
    /\ added = <<>>
    /\ pass = 1
    /\ first = EmptyMap
    /\ report = <<>>

(***************************************************************************)
(* The top-level list call and the end of a pass.                          *)
(***************************************************************************)
\* The listing a command ranges over.
TopLevelList ==
    CASE cmd = "ns" -> namespaces
      [] cmd = "ing" -> InNamespace(namespace, ingresses)
      [] cmd = "svc" -> InNamespace(namespace, services)
      [] cmd = "dep" -> InNamespace(namespace, deployments)
      [] cmd = "run" -> InNamespace("", ingresses)

\* The list call succeeds: the inventory is created and the loop starts.
List ==
    /\ pc = "start"
    /\ items' = TopLevelList
    /\ orphans' = NewInventory
    /\ pc' = "loop"
    /\ i' = 1 /\ r' = 1 /\ p' = 1
    /\ UNCHANGED <<snapshot, calls, added, pass, first, report>>

\* The list call fails: betterPanic prints the error and calls os.Exit(1).
ListFails ==
    /\ pc = "start"
    /\ pc' = "exit"
    /\ UNCHANGED <<snapshot, items, orphans, i, r, p, calls, added, pass, first, report>>

\* The number of names of a map that hold the value v.
Count(m, v) == Cardinality({n \in DOMAIN m : m[n] = v})

\* for _, reason := range m { list = append(list, reason) }: the values of a map
\* as a list whose order is not fixed (the range order of a map), kept as a bag.
Values(m) == [v \in {m[n] : n \in DOMAIN m} |-> Count(m, v)]

\* The NamespaceList printReport and run assemble from the inventory: for each
\* namespace key the lists of its violations.  An empty inventory prints "You
\* don't have any problems, at all!" instead.
NamespaceList(inv) ==
    [clean |-> DOMAIN inv = {},
     Namespaces |-> [ns \in DOMAIN inv |->
                       [list \in DOMAIN inv[ns] |-> Values(inv[ns][list])]]]

\* The loop is over: the validator returns the inventory and the command prints it.
Return ==
    /\ pc = "loop"
    /\ cmd # "run"
    /\ i > Len(items)
    /\ pc' = "done"
    /\ report' = <<NamespaceList(orphans)>>
    /\ UNCHANGED <<snapshot, items, orphans, i, r, p, calls, added, pass, first>>

\* The same command is started again on the unchanged snapshot.
Rerun ==
    /\ pc = "done"
    /\ pass = 1
    /\ first' = orphans
    /\ pass' = 2
    /\ pc' = "start"
    /\ calls' = <<>>
    /\ added' = <<>>
    /\ report' = <<>>
    /\ UNCHANGED <<snapshot, items, orphans, i, r, p>>

(***************************************************************************)
(* validateNamespaces                                                      *)
(***************************************************************************)
ValidateNamespace ==
    /\ pc = "loop" /\ cmd = "ns" /\ i <= Len(items)
    /\ LET ns == items[i] IN
         IF ns.Phase = "Terminating" /\ contains("kubernetes", ns.Finalizers)
         THEN Record(ns.Namespace, ns.Name,
                     InventoryViolation(ns.Namespace, "ingress", NoReference,
                                        Text("stuck in termination")))
         ELSE NoRecord
    /\ i' = i + 1
    /\ UNCHANGED <<snapshot, items, pc, r, p, calls, pass, first, report>>

(***************************************************************************)
(* validateServices                                                        *)
(***************************************************************************)
\* isd.IsDomain: a dotted name under a known top-level domain; an IP literal is not.
IsDomain(s) == s \in {"example.com"}

\* Mutant: the LoadBalancer test comes before the selector test.
ServiceBranch_LoadBalancerFirst(service) ==
    IF "default" = service.Namespace /\ "kubernetes" = service.Name THEN "skip"
    ELSE IF service.Type = "LoadBalancer" THEN "LoadBalancer"
    ELSE IF service.Selector = {} /\ service.Type # "ExternalName" THEN "no selector"
    ELSE IF service.Type = "ExternalName" THEN "ExternalName"
    ELSE "pods"

\* Mutant: the selector test does not exempt ExternalName services.
ServiceBranch_NoExemption(service) ==
    IF "default" = service.Namespace /\ "kubernetes" = service.Name THEN "skip"
    ELSE IF service.Selector = {} THEN "no selector"
    ELSE IF service.Type = "LoadBalancer" THEN "LoadBalancer"
    ELSE IF service.Type = "ExternalName" THEN "ExternalName"
    ELSE "pods"

\* Mutant: an ExternalName service that carries a selector falls through to the
\* pod query.
ServiceBranch_AliasQueried(service) ==
    IF "default" = service.Namespace /\ "kubernetes" = service.Name THEN "skip"
    ELSE IF service.Selector = {} /\ service.Type # "ExternalName" THEN "no selector"
    ELSE IF service.Type = "LoadBalancer" THEN "LoadBalancer"
    ELSE IF service.Type = "ExternalName" /\ service.Selector = {} THEN "ExternalName"
    ELSE "pods"

\* The branch the loop body takes for one service; the first test that holds wins.
ServiceBranch(service) ==
    IF "default" = service.Namespace /\ "kubernetes" = service.Name THEN "skip"
    ELSE IF service.Selector = {} /\ service.Type # "ExternalName" THEN "no selector"
    ELSE IF service.Type = "LoadBalancer" THEN "LoadBalancer"
    ELSE IF service.Type = "ExternalName" THEN "ExternalName"
    ELSE "pods"

\* The namespace validateServices queries pods in: the -n flag.
ServicePodsNamespace(service) == namespace

ServiceViolation(service, reference, reason) ==
    Record(service.Namespace, service.Name,
           InventoryViolation(service.Name, "service", reference, reason))

ValidateService ==
    /\ pc = "loop" /\ cmd = "svc" /\ i <= Len(items)
    /\ LET service == items[i]
           branch == ServiceBranch(service)
           podList == PodsList(ServicePodsNamespace(service), service.Selector)
       IN
         /\ CASE branch = "skip" -> NoRecord
              [] branch = "no selector" ->
                    ServiceViolation(service, NoReference, Text("no selector"))
              [] branch = "LoadBalancer" ->
                    IF service.LBIngress = 0
                    THEN ServiceViolation(service, NoReference,
                                          Text("LoadBalancer service in pending state"))
                    ELSE NoRecord
              [] branch = "ExternalName" ->
                    IF ~IsDomain(service.ExternalName)
                    THEN ServiceViolation(service, NoReference,
                                          <<service.ExternalName, " is not a valid CNAME">>)
                    ELSE NoRecord
              [] branch = "pods" ->
                    IF podList.err # NoErr
                    THEN ServiceViolation(service, NoReference,
                            <<"backing service references no workloads: ", podList.err>>)
                    ELSE IF Len(podList.Items) = 0
                    THEN ServiceViolation(service,
                            [Name |-> "", Kind |-> "pod",
                             LabelSelector |-> SelectorString(service.Selector)],
                            Text("backing workload contains no pods"))
                    ELSE NoRecord
         /\ calls' = IF branch = "pods"
                     THEN Append(calls, PodsListCall(service, ServicePodsNamespace(service),
                                                    service.Selector))
                     ELSE calls
    /\ i' = i + 1
    /\ UNCHANGED <<snapshot, items, pc, r, p, pass, first, report>>

(***************************************************************************)
(* validateDeployments                                                     *)
(***************************************************************************)
\* Mutant: the condition loop stops at the first stalled condition.
ConditionReasons_FirstOnly(conditions) ==
    LET stalled == SelectSeq(conditions, LAMBDA c :
                      \/ c.Type = "Available" /\ c.Status = "False"
                            /\ c.Reason = "MinimumReplicasUnavailable"
                      \/ c.Type = "Progressing" /\ c.Status = "False"
                            /\ c.Reason = "ProgressDeadlineExceeded")
    IN  IF stalled = <<>> THEN <<>>
        ELSE IF stalled[1].Type = "Available"
        THEN <<Text("minimum replicas unavailable, could be temporary")>>
        ELSE <<Text(stalled[1].Message)>>

\* The reasons the condition loop records, in order.
RECURSIVE ConditionReasons(_)
ConditionReasons(conditions) ==
    IF conditions = <<>> THEN <<>>
    ELSE LET condition == Head(conditions) IN
         (IF condition.Type = "Available" /\ condition.Status = "False"
                /\ condition.Reason = "MinimumReplicasUnavailable"
          THEN <<Text("minimum replicas unavailable, could be temporary")>>
          ELSE IF condition.Type = "Progressing" /\ condition.Status = "False"
                    /\ condition.Reason = "ProgressDeadlineExceeded"
          THEN <<Text(condition.Message)>>
          ELSE <<>>)
         \o ConditionReasons(Tail(conditions))

\* Mutant: no check ends the loop body, all five are evaluated.
DeploymentReasons_NoContinue(deployment) ==
    (IF deployment.Replicas = 0
     THEN <<Text("deployment scaled down to 0 replicas")>> ELSE <<>>)
    \o (IF Cardinality(deployment.Labels) = 0
        THEN <<Text("no labels on deployment")>> ELSE <<>>)
    \o ConditionReasons(deployment.Conditions)
    \o (IF deployment.ReadyReplicas = 0
        THEN <<Text("no replicas are ready")>> ELSE <<>>)

\* The reasons the loop body records for one deployment, in order: a `continue`
\* of the deployment loop ends the body, one of the condition loop does not.
DeploymentReasons(deployment) ==
    IF deployment.Replicas = 0
    THEN <<Text("deployment scaled down to 0 replicas")>>
    ELSE IF Cardinality(deployment.Labels) = 0
    THEN <<Text("no labels on deployment")>>
    ELSE ConditionReasons(deployment.Conditions)
         \o (IF deployment.ReadyReplicas = 0
             THEN <<Text("no replicas are ready")>>
             ELSE <<>>)

RECURSIVE AddAll(_, _, _, _)
AddAll(inv, ns, name, vs) ==
    IF vs = <<>> THEN inv
    ELSE AddAll(addInventoryViolation(inv, ns, name, Head(vs)), ns, name, Tail(vs))

ValidateDeployment ==
    /\ pc = "loop" /\ cmd = "dep" /\ i <= Len(items)
    /\ LET deployment == items[i]
           reasons == DeploymentReasons(deployment)
           vs == [k \in 1..Len(reasons) |->
                    InventoryViolation(deployment.Name, "deployment", NoReference,
                                       reasons[k])]
       IN /\ orphans' = AddAll(orphans, deployment.Namespace, deployment.Name, vs)
          /\ added' = added \o [k \in 1..Len(vs) |->
                                  <<deployment.Namespace, deployment.Name, vs[k]>>]
    /\ i' = i + 1
    /\ UNCHANGED <<snapshot, items, pc, r, p, calls, pass, first, report>>

(***************************************************************************)
(* validateIngresses                                                       *)
(***************************************************************************)
\* Mutant: the reference does not name the service.
ServiceReference_Unnamed(serviceName) ==
    [Name |-> "", Kind |-> "service", LabelSelector |-> ""]

ServiceReference(serviceName) ==
    [Name |-> serviceName, Kind |-> "service", LabelSelector |-> ""]

\* Mutant: any port of the service will do.
ExposesPort_Any(service, servicePort) == service.Ports # {}

\* for _, port := range service.Spec.Ports { if port.Port == servicePort ... }
ExposesPort(service, servicePort) == \E port \in service.Ports : port = servicePort

IngressViolation(ingress, reference, reason) ==
    Record(ingress.Namespace, ingress.Name,
           InventoryViolation(ingress.Name, "ingress", reference, reason))

\* Mutant: `break` for `continue`, the remaining rules of the ingress are not visited.
IngressNoHTTP_Break ==
    /\ pc = "loop" /\ cmd = "ing" /\ i <= Len(items)
    /\ r <= Len(items[i].Rules)
    /\ ~items[i].Rules[r].HasHTTP
    /\ IngressViolation(items[i], NoReference, Text("no HTTP routes in ingress"))
    /\ r' = Len(items[i].Rules) + 1
    /\ UNCHANGED <<snapshot, items, pc, i, p, calls, pass, first, report>>

\* A rule without an HTTP block.
IngressNoHTTP ==
    /\ pc = "loop" /\ cmd = "ing" /\ i <= Len(items)
    /\ r <= Len(items[i].Rules)
    /\ ~items[i].Rules[r].HasHTTP
    /\ IngressViolation(items[i], NoReference, Text("no HTTP routes in ingress"))
    /\ r' = r + 1
    /\ UNCHANGED <<snapshot, items, pc, i, p, calls, pass, first, report>>

\* Mutant: a failed service lookup ends the command.
IngressPath_Fatal ==
    /\ pc = "loop" /\ cmd = "ing" /\ i <= Len(items)
    /\ r <= Len(items[i].Rules)
    /\ items[i].Rules[r].HasHTTP
    /\ p <= Len(items[i].Rules[r].Paths)
    /\ LET ingress == items[i]
           path == ingress.Rules[r].Paths[p]
           serviceName == path.ServiceName
           servicePort == path.ServicePort
           service == ServicesGet(ingress.Namespace, serviceName)
       IN
         /\ calls' = Append(calls, GetCall(ingress, "services.get", ingress.Namespace,
                                          serviceName))
         /\ pc' = IF service.err # NoErr THEN "exit" ELSE pc
         /\ IF service.err = NoErr /\ ~ExposesPort(service.obj, servicePort)
            THEN IngressViolation(ingress, ServiceReference(serviceName),
                    <<"Service doesn't expose ingress port ">> \o Itoa(servicePort))
            ELSE NoRecord
    /\ p' = p + 1
    /\ UNCHANGED <<snapshot, items, i, r, pass, first, report>>

\* One path of a rule: the backend service is looked up and its ports compared.
IngressPath ==
    /\ pc = "loop" /\ cmd = "ing" /\ i <= Len(items)
    /\ r <= Len(items[i].Rules)
    /\ items[i].Rules[r].HasHTTP
    /\ p <= Len(items[i].Rules[r].Paths)
    /\ LET ingress == items[i]
           path == ingress.Rules[r].Paths[p]
           serviceName == path.ServiceName
           servicePort == path.ServicePort
           service == ServicesGet(ingress.Namespace, serviceName)
       IN
         /\ calls' = Append(calls, GetCall(ingress, "services.get", ingress.Namespace,
                                          serviceName))
         /\ IF service.err # NoErr
            THEN IngressViolation(ingress, ServiceReference(serviceName),
                                  <<"references a missing service: ", service.err>>)
            ELSE IF ~ExposesPort(service.obj, servicePort)
            THEN IngressViolation(ingress, ServiceReference(serviceName),
                    <<"Service doesn't expose ingress port ">> \o Itoa(servicePort))
            ELSE NoRecord
    /\ p' = p + 1
    /\ UNCHANGED <<snapshot, items, pc, i, r, pass, first, report>>

\* The paths of a rule are exhausted: the next rule.
IngressNextRule ==
    /\ pc = "loop" /\ cmd \in {"ing", "run"} /\ i <= Len(items)
    /\ r <= Len(items[i].Rules)
    /\ items[i].Rules[r].HasHTTP
    /\ p > Len(items[i].Rules[r].Paths)
    /\ r' = r + 1 /\ p' = 1
    /\ UNCHANGED <<snapshot, items, orphans, pc, i, calls, added, pass, first, report>>

\* The rules of an ingress are exhausted: the next ingress.
IngressNext ==
    /\ pc = "loop" /\ cmd \in {"ing", "run"} /\ i <= Len(items)
    /\ r > Len(items[i].Rules)
    /\ i' = i + 1 /\ r' = 1 /\ p' = 1
    /\ UNCHANGED <<snapshot, items, orphans, pc, calls, added, pass, first, report>>

(***************************************************************************)
(* run: the ingress pass, then the pod pass, on one map of OrphanLists      *)
(***************************************************************************)
\* orphanList := orphans[ns]; if orphanList.<list> == nil { make }; 
\* orphanList.<list>[name] = reason; orphans[ns] = orphanList
addOrphan(inv, ns, list, name, reason) ==
    LET orphanList == IF ns \in DOMAIN inv THEN inv[ns]
                      ELSE [Pods |-> EmptyMap, Ingresses |-> EmptyMap]
    IN  MapPut(inv, ns, [orphanList EXCEPT ![list] = MapPut(@, name, reason)])

OrphanReason(name, kind, reference, reason) ==
    [Name |-> name, Kind |-> kind, Reference |-> reference, Reason |-> reason]

\* The ResourceReference of `run` has no LabelSelector field.
Reference(kind, name) == [Name |-> name, Kind |-> kind]
ZeroReference == Reference("", "")

\* Mutant: the reference of validateServices, kind "pod".
PodsReference_Singular(sel) == Reference("pod", SelectorString(sel))

\* ResourceReference{Kind: "pods", Name: listOptions.LabelSelector}
PodsReference(sel) == Reference("pods", SelectorString(sel))

RecordOrphan(ns, list, name, v) ==
    /\ orphans' = addOrphan(orphans, ns, list, name, v)
    /\ added' = Append(added, <<ns, name, v, list>>)

OrphanIngress(ingress, reference, reason) ==
    RecordOrphan(ingress.Namespace, "Ingresses", ingress.Name,
                 OrphanReason(ingress.Name, "ingress", reference, reason))

OrphanPod(pod, reference, reason) ==
    RecordOrphan(pod.Namespace, "Pods", pod.Name,
                 OrphanReason(pod.Name, "pod", reference, reason))

RunIngressNoHTTP ==
    /\ pc = "loop" /\ cmd = "run" /\ i <= Len(items)
    /\ r <= Len(items[i].Rules)
    /\ ~items[i].Rules[r].HasHTTP
    /\ OrphanIngress(items[i], ZeroReference, Text("no HTTP routes in ingress"))
    /\ r' = r + 1
    /\ UNCHANGED <<snapshot, items, pc, i, p, calls, pass, first, report>>

RunIngressPath ==
    /\ pc = "loop" /\ cmd = "run" /\ i <= Len(items)
    /\ r <= Len(items[i].Rules)
    /\ items[i].Rules[r].HasHTTP
    /\ p <= Len(items[i].Rules[r].Paths)
    /\ LET ingress == items[i]
           path == ingress.Rules[r].Paths[p]
           serviceName == path.ServiceName
           servicePort == path.ServicePort
           service == ServicesGet(ingress.Namespace, serviceName)
           resolved == service.err = NoErr /\ ExposesPort(service.obj, servicePort)
           podList == PodsList(ingress.Namespace, service.obj.Selector)
       IN
         /\ calls' = calls
                \o <<GetCall(ingress, "services.get", ingress.Namespace, serviceName)>>
                \o (IF resolved
                    THEN <<PodsListCall(ingress, ingress.Namespace, service.obj.Selector)>>
                    ELSE <<>>)
         /\ IF service.err # NoErr
            THEN OrphanIngress(ingress, Reference("service", serviceName),
                               <<"references a missing service: ", service.err>>)
            ELSE IF ~ExposesPort(service.obj, servicePort)
            THEN OrphanIngress(ingress, Reference("service", serviceName),
                    <<"Service doesn't expose ingress port ">> \o Itoa(servicePort))
            ELSE IF podList.err # NoErr
            THEN OrphanIngress(ingress, Reference("service", serviceName),
                    <<"backing service references no workloads: ", podList.err>>)
            ELSE IF Len(podList.Items) = 0
            THEN OrphanIngress(ingress, PodsReference(service.obj.Selector),
                               Text("backing workload contains no pods"))
            ELSE NoRecord
    /\ p' = p + 1
    /\ UNCHANGED <<snapshot, items, pc, i, r, pass, first, report>>

\* The ingress loop is over and the pods of all namespaces are listed.
RunListPods ==
    /\ pc = "loop" /\ cmd = "run" /\ i > Len(items)
    /\ items' = InNamespace("", pods)
    /\ pc' = "pods"
    /\ i' = 1 /\ r' = 1 /\ p' = 1
    /\ UNCHANGED <<snapshot, orphans, calls, added, pass, first, report>>

\* Mutant: the findings of the ingress pass are printed before the exit.
RunListPodsFails_PartialReport ==
    /\ pc = "loop" /\ cmd = "run" /\ i > Len(items)
    /\ pc' = "exit"
    /\ report' = <<NamespaceList(orphans)>>
    /\ UNCHANGED <<snapshot, items, orphans, i, r, p, calls, added, pass, first>>

\* The pod list call fails: betterPanic, os.Exit(1).
RunListPodsFails ==
    /\ pc = "loop" /\ cmd = "run" /\ i > Len(items)
    /\ pc' = "exit"
    /\ UNCHANGED <<snapshot, items, orphans, i, r, p, calls, added, pass, first, report>>

\* Mutant: no namespace is skipped.
SkippedPod_Never(pod) == FALSE

\* if "kube-system" == pod.Namespace { continue }
SkippedPod(pod) == "kube-system" = pod.Namespace

PodSkip ==
    /\ pc = "pods" /\ i <= Len(items)
    /\ SkippedPod(items[i])
    /\ i' = i + 1
    /\ UNCHANGED <<snapshot, items, orphans, pc, r, p, calls, added, pass, first, report>>

\* The Deployment owners of a ReplicaSet, in order.
DeploymentOwners(rs) == SelectSeq(rs.OwnerReferences, LAMBDA o : "Deployment" = o.Kind)

\* Mutant: the owner loop stops at the first Deployment that is missing.
MissingDeployments_FirstOnly(rs) ==
    LET missing == SelectSeq(SelectSeq(rs.OwnerReferences, LAMBDA o : "Deployment" = o.Kind),
                             LAMBDA o : DeploymentsGet(rs.Namespace, o.Name).err # NoErr)
    IN  IF missing = <<>> THEN <<>> ELSE <<missing[1]>>

\* The Deployment owners of a ReplicaSet whose lookup fails, in order.
MissingDeployments(rs) ==
    SelectSeq(DeploymentOwners(rs),
              LAMBDA o : DeploymentsGet(rs.Namespace, o.Name).err # NoErr)

RECURSIVE AddAllOrphans(_, _, _, _, _)
AddAllOrphans(inv, ns, list, name, vs) ==
    IF vs = <<>> THEN inv
    ELSE AddAllOrphans(addOrphan(inv, ns, list, name, Head(vs)), ns, list, name, Tail(vs))

\* One owner reference of a pod.
PodOwner ==
    /\ pc = "pods" /\ i <= Len(items)
    /\ ~SkippedPod(items[i])
    /\ r <= Len(items[i].OwnerReferences)
    /\ LET pod == items[i]
           ownerReference == pod.OwnerReferences[r]
           rs == ReplicaSetsGet(pod.Namespace, ownerReference.Name)
       IN
         IF "ReplicaSet" # ownerReference.Kind
         THEN UNCHANGED <<orphans, added, calls>>
         ELSE IF rs.err # NoErr
         THEN /\ OrphanPod(pod, Reference(ownerReference.Kind, ownerReference.Name),
                           Text("owner is missing"))
              /\ calls' = Append(calls, GetCall(pod, "replicasets.get", pod.Namespace,
                                                ownerReference.Name))
         ELSE LET owners == DeploymentOwners(rs.obj)
                  missing == MissingDeployments(rs.obj)
                  vs == [k \in 1..Len(missing) |->
                           OrphanReason(pod.Name, "pod",
                                        Reference("deployment", missing[k].Name),
                                        Text("owner of the owner is missing"))]
              IN /\ orphans' = AddAllOrphans(orphans, pod.Namespace, "Pods", pod.Name, vs)
                 /\ added' = added \o [k \in 1..Len(vs) |->
                                         <<pod.Namespace, pod.Name, vs[k], "Pods">>]
                 /\ calls' = calls
                        \o <<GetCall(pod, "replicasets.get", pod.Namespace,
                                   ownerReference.Name)>>
                        \o [k \in 1..Len(owners) |->
                              GetCall(pod, "deployments.get", rs.obj.Namespace,
                                      owners[k].Name)]
    /\ r' = r + 1
    /\ UNCHANGED <<snapshot, items, pc, i, p, pass, first, report>>

\* The owner references are exhausted: a pod without any is recorded; the next pod.
PodNext ==
    /\ pc = "pods" /\ i <= Len(items)
    /\ ~SkippedPod(items[i])
    /\ r > Len(items[i].OwnerReferences)
    /\ IF Len(items[i].OwnerReferences) = 0
       THEN OrphanPod(items[i], ZeroReference, Text("pod is not owned by anyone"))
       ELSE NoRecord
    /\ i' = i + 1 /\ r' = 1
    /\ UNCHANGED <<snapshot, items, pc, p, calls, pass, first, report>>

\* The pod loop is over: the report is assembled from the inventory.
RunReturn ==
    /\ pc = "pods" /\ i > Len(items)
    /\ pc' = "done"
    /\ report' = <<NamespaceList(orphans)>>
    /\ UNCHANGED <<snapshot, items, orphans, i, r, p, calls, added, pass, first>>

(***************************************************************************)
(* Properties                                                              *)
(***************************************************************************)
Range(s) == {s[k] : k \in 1..Len(s)}

\* The entry of the inventory inv for a resource o, in the map named list.
HasEntryIn(inv, list, o) ==
    o.Namespace \in DOMAIN inv /\ o.Name \in DOMAIN inv[o.Namespace][list]
EntryIn(inv, list, o) == inv[o.Namespace][list][o.Name]
HasEntry(o) == HasEntryIn(orphans, "Items", o)
Entry(o) == EntryIn(orphans, "Items", o)
IngressList == IF cmd = "run" THEN "Ingresses" ELSE "Items"

CallsBy(o) == {c \in Range(calls) : c.by = <<o.Namespace, o.Name>>}
PodListCalls(log) == {k \in 1..Len(log) : log[k].op = "pods.list"}

Finished == pc = "done"

ListedIngresses == InNamespace(IF cmd = "run" THEN "" ELSE namespace, ingresses)
ListedServices ==
    SelectSeq(InNamespace(namespace, services),
              LAMBDA o : ~(o.Namespace = "default" /\ o.Name = "kubernetes"))

\* --- C1 ------------------------------------------------------------------
LastAdded(ns, name) ==
    LET ks == {k \in 1..Len(added) : added[k][1] = ns /\ added[k][2] = name}
    IN  added[CHOOSE k \in ks : \A j \in ks : j <= k][3]

\* C1: during a pass of a validator the inventory holds exactly the (namespace,
\* name) pairs addInventoryViolation was called for, one violation each, and that
\* violation is the one of the most recent call for the pair.
C1_LastViolationPerPair ==
    (cmd # "run" /\ pc \in {"loop", "done"}) =>
        /\ Keys(orphans) = {<<e[1], e[2]>> : e \in Range(added)}
        /\ \A key \in Keys(orphans) :
              orphans[key[1]].Items[key[2]] = LastAdded(key[1], key[2])

C1_Witness ==
    /\ cmd = "dep" /\ Finished
    /\ Cardinality(Keys(orphans)) = 2
    /\ \E j, k \in 1..Len(added) :
          j < k /\ added[j][1] = added[k][1] /\ added[j][2] = added[k][2]
                /\ added[j][3] # added[k][3]

\* --- C2 ------------------------------------------------------------------
NoHTTPRules(ingress) == {k \in 1..Len(ingress.Rules) : ~ingress.Rules[k].HasHTTP}

\* The backend of a path resolves in the snapshot: the service exists in the
\* namespace and exposes the port, and for `run` at least one pod matches.
BackendHealthy(ns, path) ==
    /\ "services.get" \notin failing
    /\ \E k \in 1..Len(services) :
          /\ services[k].Namespace = ns /\ services[k].Name = path.ServiceName
          /\ path.ServicePort \in services[k].Ports
          /\ cmd = "run" =>
                /\ "pods.list" \notin failing
                /\ \E q \in 1..Len(pods) : /\ pods[q].Namespace = ns
                                           /\ services[k].Selector \subseteq pods[q].Labels

\* A path of a rule after the last rule without an HTTP block has a finding.
FindingAfterNoHTTP(ingress) ==
    LET last == CHOOSE k \in NoHTTPRules(ingress) : \A j \in NoHTTPRules(ingress) : j <= k
    IN  \E k \in (last + 1)..Len(ingress.Rules) :
          \E q \in 1..Len(ingress.Rules[k].Paths) :
             ~BackendHealthy(ingress.Namespace, ingress.Rules[k].Paths[q])

NoHTTPReason == <<"no HTTP routes in ingress">>

\* C2 as stated: an ingress with a rule without an HTTP block ends with the
\* violation "no HTTP routes in ingress", whatever its other rules are.
C2_AsStated ==
    (Finished /\ cmd \in {"ing", "run"}) =>
        \A k \in 1..Len(ListedIngresses) :
           LET ingress == ListedIngresses[k] IN
           NoHTTPRules(ingress) # {} =>
              /\ HasEntryIn(orphans, IngressList, ingress)
              /\ EntryIn(orphans, IngressList, ingress).Reason = NoHTTPReason

\* C2, amended: such an ingress ends with one violation; it is "no HTTP routes in
\* ingress" exactly when no path of a rule after the last such rule has a finding.
C2_NoHTTPUnlessLaterFinding ==
    (Finished /\ cmd \in {"ing", "run"}) =>
        \A k \in 1..Len(ListedIngresses) :
           LET ingress == ListedIngresses[k] IN
           NoHTTPRules(ingress) # {} =>
              /\ HasEntryIn(orphans, IngressList, ingress)
              /\ EntryIn(orphans, IngressList, ingress).Name = ingress.Name
              /\ (EntryIn(orphans, IngressList, ingress).Reason = NoHTTPReason)
                    <=> ~FindingAfterNoHTTP(ingress)

C2_Witness ==
    /\ Finished /\ cmd = "ing"
    /\ \E k \in 1..Len(ListedIngresses) :
          LET ingress == ListedIngresses[k] IN
          /\ NoHTTPRules(ingress) = {1}
          /\ FindingAfterNoHTTP(ingress)
          /\ Entry(ingress).Reason # NoHTTPReason

\* --- C3 ------------------------------------------------------------------
\* The ingress loop stands before a path.
AtPath ==
    /\ pc = "loop" /\ cmd \in {"ing", "run"} /\ i <= Len(items)
    /\ r <= Len(items[i].Rules)
    /\ items[i].Rules[r].HasHTTP
    /\ p <= Len(items[i].Rules[r].Paths)

ServiceMissing(ns, name) ==
    \/ "services.get" \in failing
    \/ ~\E k \in 1..Len(services) : services[k].Namespace = ns /\ services[k].Name = name

\* The step from a path whose service lookup fails: the violation of the ingress
\* carries `reason` and names the service, no pod list call is issued, and the
\* loop moves to the next path.
MissingServiceStep(reason) ==
    (AtPath /\ ServiceMissing(items[i].Namespace, items[i].Rules[r].Paths[p].ServiceName)) =>
        LET ingress == items[i]
            serviceName == ingress.Rules[r].Paths[p].ServiceName
        IN  /\ HasEntryIn(orphans', IngressList, ingress)
            /\ EntryIn(orphans', IngressList, ingress).Reason = reason
            /\ EntryIn(orphans', IngressList, ingress).Name = ingress.Name
            /\ EntryIn(orphans', IngressList, ingress).Reference.Kind = "service"
            /\ EntryIn(orphans', IngressList, ingress).Reference.Name = serviceName
            /\ Len(calls') = Len(calls) + 1
            /\ PodListCalls(calls') = PodListCalls(calls)
            /\ i' = i /\ r' = r /\ p' = p + 1

LookupError == IF "services.get" \in failing THEN "i/o timeout" ELSE "not found"

\* C3 as stated: the reason recorded is "references a missing service".
C3_AsStated == [][MissingServiceStep(<<"references a missing service">>)]_vars

\* C3, amended: the reason recorded is "references a missing service: " followed
\* by the text of the lookup error; the reference names the service, no pod list
\* call is issued for the path and the next path follows.
C3_MissingServiceRecorded ==
    [][MissingServiceStep(<<"references a missing service: ", LookupError>>)]_vars

C3_Witness ==
    /\ cmd = "run" /\ pc = "loop" /\ Len(added) > 0
    /\ added[Len(added)][3].Reason = <<"references a missing service: ", "not found">>
    /\ added[Len(added)][3].Reference = [Name |-> "cart", Kind |-> "service"]
    /\ PodListCalls(calls) = {}
    /\ p = 2

\* --- C4 ------------------------------------------------------------------
PendingLoadBalancer(service) == service.Type = "LoadBalancer" /\ service.LBIngress = 0

\* C4 as stated: a pending LoadBalancer service ends with "LoadBalancer service in
\* pending state" and without a pod list call, whatever its selector is.
C4_AsStated ==
    (Finished /\ cmd = "svc") =>
        \A k \in 1..Len(ListedServices) :
           LET service == ListedServices[k] IN
           PendingLoadBalancer(service) =>
              /\ HasEntry(service)
              /\ Entry(service).Reason = <<"LoadBalancer service in pending state">>
              /\ CallsBy(service) = {}

\* C4, amended: with a selector the violation is "LoadBalancer service in pending
\* state", with an empty selector it is "no selector"; no pod list call either way.
C4_PendingLoadBalancer ==
    (Finished /\ cmd = "svc") =>
        \A k \in 1..Len(ListedServices) :
           LET service == ListedServices[k] IN
           PendingLoadBalancer(service) =>
              /\ HasEntry(service)
              /\ Entry(service).Name = service.Name
              /\ Entry(service).Reason =
                    (IF service.Selector = {} THEN <<"no selector">>
                     ELSE <<"LoadBalancer service in pending state">>)
              /\ CallsBy(service) = {}

C4_Witness ==
    /\ Finished /\ cmd = "svc" /\ Len(ListedServices) = 2
    /\ \A k \in 1..2 : PendingLoadBalancer(ListedServices[k])
    /\ ListedServices[1].Selector = {} /\ ListedServices[2].Selector # {}
    /\ Entry(ListedServices[1]).Reason = <<"no selector">>
    /\ Entry(ListedServices[2]).Reason = <<"LoadBalancer service in pending state">>

\* --- C5 ------------------------------------------------------------------
\* C5 as stated: a ClusterIP or NodePort service with a selector is judged by the
\* pods of its own namespace: none matching gives "backing workload contains no
\* pods" with the selector as reference, one matching gives no violation.
C5_AsStated ==
    (Finished /\ cmd = "svc" /\ failing = {}) =>
        \A k \in 1..Len(ListedServices) :
           LET service == ListedServices[k]
               matching == {q \in 1..Len(pods) :
                              /\ pods[q].Namespace = service.Namespace
                              /\ service.Selector \subseteq pods[q].Labels}
           IN (service.Type \in {"ClusterIP", "NodePort"} /\ service.Selector # {}) =>
                 /\ matching # {} => ~HasEntry(service)
                 /\ matching = {} =>
                       /\ HasEntry(service)
                       /\ Entry(service).Reason = <<"backing workload contains no pods">>
                       /\ Entry(service).Reference =
                             [Name |-> "", Kind |-> "pod",
                              LabelSelector |-> SelectorString(service.Selector)]

\* --- C6 ------------------------------------------------------------------
StalledCondition(c) ==
    \/ c.Type = "Available" /\ c.Status = "False" /\ c.Reason = "MinimumReplicasUnavailable"
    \/ c.Type = "Progressing" /\ c.Status = "False" /\ c.Reason = "ProgressDeadlineExceeded"

\* A deployment with replicas, none of them ready, and no stalled condition.
NotReadyOnly(d) ==
    /\ d.Replicas # 0 /\ d.ReadyReplicas = 0
    /\ \A c \in Range(d.Conditions) : ~StalledCondition(c)

ListedDeployments == InNamespace(namespace, deployments)

ScaledDownRecorded(d) ==
    \E e \in Range(added) :
        /\ e[1] = d.Namespace /\ e[2] = d.Name
        /\ e[3].Reason = <<"deployment scaled down to 0 replicas">>

\* C6 as stated: such a deployment ends with "no replicas are ready".
C6_AsStated ==
    (Finished /\ cmd = "dep") =>
        \A k \in 1..Len(ListedDeployments) :
           LET d == ListedDeployments[k] IN
           NotReadyOnly(d) =>
              /\ HasEntry(d)
              /\ Entry(d).Reason = <<"no replicas are ready">>
              /\ ~ScaledDownRecorded(d)

\* C6, amended: such a deployment ends with "no replicas are ready" if it has a
\* label and with "no labels on deployment" if it has none; the zero-replica check
\* does not fire.
C6_NotReadyOnly ==
    (Finished /\ cmd = "dep") =>
        \A k \in 1..Len(ListedDeployments) :
           LET d == ListedDeployments[k] IN
           NotReadyOnly(d) =>
              /\ HasEntry(d)
              /\ Entry(d) = InventoryViolation(d.Name, "deployment", NoReference,
                                IF d.Labels = {} THEN <<"no labels on deployment">>
                                ELSE <<"no replicas are ready">>)
              /\ ~ScaledDownRecorded(d)
              /\ Cardinality({j \in 1..Len(added) :
                                added[j][1] = d.Namespace /\ added[j][2] = d.Name}) = 1

C6_Witness ==
    /\ Finished /\ cmd = "dep" /\ Len(ListedDeployments) = 2
    /\ \A k \in 1..2 : /\ NotReadyOnly(ListedDeployments[k])
                       /\ Len(ListedDeployments[k].Conditions) > 0
    /\ ListedDeployments[1].Labels = {} /\ ListedDeployments[2].Labels # {}
    /\ Entry(ListedDeployments[1]).Reason = <<"no labels on deployment">>
    /\ Entry(ListedDeployments[2]).Reason = <<"no replicas are ready">>

\* --- C7 ------------------------------------------------------------------
StuckViolation(v) == v.Reason = <<"stuck in termination">> /\ v.Reference = NoReference

\* The violations recorded under a name, in any namespace key.
ViolationsNamed(name) ==
    {orphans[ns].Items[name] : ns \in {x \in DOMAIN orphans : name \in DOMAIN orphans[x].Items}}

\* C7: after validateNamespaces a namespace has a violation, "stuck in
\* termination" without reference, exactly when it is Terminating and "kubernetes"
\* is among its finalizers.
C7_StuckInTermination ==
    (Finished /\ cmd = "ns") =>
        \A k \in 1..Len(namespaces) :
           LET ns == namespaces[k]
               stuck == ns.Phase = "Terminating" /\ "kubernetes" \in Range(ns.Finalizers)
           IN  /\ stuck => \E v \in ViolationsNamed(ns.Name) : StuckViolation(v)
               /\ ~stuck => ViolationsNamed(ns.Name) = {}
               /\ Cardinality(ViolationsNamed(ns.Name)) <= 1

C7_Witness ==
    /\ Finished /\ cmd = "ns" /\ Len(namespaces) = 2
    /\ namespaces[1].Phase = "Terminating"
    /\ namespaces[1].Finalizers = <<"foregroundDeletion", "kubernetes">>
    /\ namespaces[2].Phase = "Terminating" /\ namespaces[2].Finalizers = <<>>
    /\ \E v \in ViolationsNamed(namespaces[1].Name) : StuckViolation(v)
    /\ ViolationsNamed(namespaces[2].Name) = {}

\* --- C8 ------------------------------------------------------------------
\* C8: in the pod pass a pod outside kube-system without owner references gets
\* "pod is not owned by anyone" without reference under (namespace, name) once it
\* was visited; a pod in kube-system never has a violation nor a lookup.
C8_UnownedPods ==
    (cmd = "run" /\ pc \in {"pods", "done"}) =>
        \A k \in 1..Len(items) :
           LET pod == items[k] IN
           /\ pod.Namespace = "kube-system" =>
                 /\ ~HasEntryIn(orphans, "Pods", pod)
                 /\ CallsBy(pod) = {}
           /\ (pod.Namespace # "kube-system" /\ Len(pod.OwnerReferences) = 0
                  /\ (k < i \/ Finished)) =>
                 /\ HasEntryIn(orphans, "Pods", pod)
                 /\ EntryIn(orphans, "Pods", pod) =
                       [Name |-> pod.Name, Kind |-> "pod",
                        Reference |-> [Name |-> "", Kind |-> ""],
                        Reason |-> <<"pod is not owned by anyone">>]

C8_Witness ==
    /\ cmd = "run" /\ Finished /\ Len(items) = 2
    /\ items[1].Namespace = "kube-system" /\ Len(items[1].OwnerReferences) = 2
    /\ items[1].OwnerReferences[1] = OwnerReference("ReplicaSet", "rs-gone")
    /\ items[2].Namespace = "shop" /\ Len(items[2].OwnerReferences) = 0
    /\ EntryIn(orphans, "Pods", items[2]).Reason = <<"pod is not owned by anyone">>
    /\ ~HasEntryIn(orphans, "Pods", items[1])

\* --- C9 ------------------------------------------------------------------
IPLiterals == {"10.0.0.1", "::1"}
DomainNames == {"example.com"}

Aborted == pc = "exit"

\* C11: a failed top-level list call (the listing of a validator, the ingress or
\* the pod listing of run) ends the command: the step that fails records no
\* violation, issues no call and prints no report, also when the inventory already
\* holds findings, and no step follows it.
C11_ListFailureAborts ==
    [][/\ ~Aborted
       /\ Aborted' => /\ report' = <<>>
                      /\ orphans' = orphans /\ added' = added /\ calls' = calls
                      /\ items' = items /\ i' = i]_vars

C11_Witness ==
    /\ cmd = "run" /\ Aborted
    /\ Len(added) > 0 /\ DOMAIN orphans # {}
    /\ report = <<>>

\* --- C12 -----------------------------------------------------------------
\* The answer the accessor gave to a logged call was an error.
CallFailed(c) ==
    CASE c.op = "services.get" -> ServicesGet(c.ns, c.arg).err # NoErr
      [] c.op = "pods.list" -> "pods.list" \in failing
      [] c.op = "replicasets.get" -> ReplicaSetsGet(c.ns, c.arg).err # NoErr
      [] c.op = "deployments.get" -> DeploymentsGet(c.ns, c.arg).err # NoErr

\* The reason a failed call of an operation is recorded with.
FailureReason(c) ==
    CASE c.op = "services.get" ->
            <<"references a missing service: ", ServicesGet(c.ns, c.arg).err>>
      [] c.op = "pods.list" ->
            <<"backing service references no workloads: ", "pods.list: i/o timeout">>
      [] c.op = "replicasets.get" -> <<"owner is missing">>
      [] c.op = "deployments.get" -> <<"owner of the owner is missing">>

CallsOf(op) == {k \in 1..Len(calls) : calls[k].op = op}
FailedCalls == {k \in 1..Len(calls) : CallFailed(calls[k])}

\* The paths of the listed ingresses, the listed services that reach the pod
\* query, and the ReplicaSet owner references of the pods outside kube-system.
ListedPaths ==
    {<<k, a, b>> \in (1..Len(ListedIngresses)) \X (1..MaxRules) \X (1..MaxPaths) :
        /\ a <= Len(ListedIngresses[k].Rules)
        /\ b <= Len(ListedIngresses[k].Rules[a].Paths)}
QueriedServices ==
    {k \in 1..Len(ListedServices) :
        /\ ListedServices[k].Type \in {"ClusterIP", "NodePort"}
        /\ ListedServices[k].Selector # {}}
ReplicaSetOwners ==
    {<<k, a>> \in (1..Len(pods)) \X (1..MaxOwners) :
        /\ pods[k].Namespace # "kube-system"
        /\ a <= Len(pods[k].OwnerReferences)
        /\ pods[k].OwnerReferences[a].Kind = "ReplicaSet"}

\* A step that issues dependent calls: each failed one leaves a violation of the
\* subject with the reason of the failure, the pass goes on at the next position.
FailedLookupStep ==
    LET newCalls == SubSeq(calls', Len(calls) + 1, Len(calls'))
        newAdded == SubSeq(added', Len(added) + 1, Len(added'))
    IN  Len(calls') > Len(calls) =>
           /\ pc' = pc /\ items' = items
           /\ <<i', r', p'>> \in {<<i + 1, r, p>>, <<i, r + 1, p>>, <<i, r, p + 1>>}
           /\ \A c \in Range(newCalls) :
                 CallFailed(c) =>
                    \E e \in Range(newAdded) :
                       /\ <<e[1], e[2]>> = c.by
                       /\ e[3].Reason = FailureReason(c)
           /\ Len(newAdded) >= Cardinality({k \in 1..Len(newCalls) : CallFailed(newCalls[k])})

\* A pass that returned has visited every item and issued every dependent call.
AllValidated ==
    Finished =>
       /\ i > Len(items)
       /\ cmd \in {"ing", "run"} => Cardinality(CallsOf("services.get")) = Cardinality(ListedPaths)
       /\ cmd = "svc" => Cardinality(CallsOf("pods.list")) = Cardinality(QueriedServices)
       /\ cmd = "run" =>
             Cardinality(CallsOf("replicasets.get")) = Cardinality(ReplicaSetOwners)

\* C12: a dependent lookup that fails (service get, pod list, ReplicaSet get,
\* Deployment get; not found or transport error) does not end the pass: the step
\* records a violation of the resource under validation and moves to the next
\* position, the command exits only where no call was issued, and a pass that
\* returns has validated every path, service and owner reference of its listing.
C12_DependencyFailureRecorded ==
    [][/\ FailedLookupStep
       /\ Aborted' => calls' = calls
       /\ AllValidated']_vars

C12_Witness ==
    /\ cmd = "run" /\ Finished
    /\ \E j, k \in FailedCalls :
          /\ j < k
          /\ calls[j].op = "services.get" /\ calls[k].op = "pods.list"
          /\ calls[j].by = calls[k].by
    /\ \E k \in CallsOf("replicasets.get") : TRUE
    /\ Cardinality(CallsOf("services.get")) = 2
    /\ Len(added) >= 2

\* --- C13 -----------------------------------------------------------------
AvailableStalled(c) ==
    c.Type = "Available" /\ c.Status = "False" /\ c.Reason = "MinimumReplicasUnavailable"
ProgressingStalled(c) ==
    c.Type = "Progressing" /\ c.Status = "False" /\ c.Reason = "ProgressDeadlineExceeded"

StalledReason(c) ==
    IF AvailableStalled(c) THEN <<"minimum replicas unavailable, could be temporary">>
    ELSE <<c.Message>>

\* The positions of the stalled conditions in status.conditions.
StalledAt(d) == {k \in 1..Len(d.Conditions) : StalledCondition(d.Conditions[k])}
LastStalled(d) == d.Conditions[CHOOSE k \in StalledAt(d) : \A j \in StalledAt(d) : j <= k]

\* The violation of deployment d in the returned inventory is the one of reason;
\* the empty reason stands for no violation.
DeploymentEndsWith(d, reason) ==
    IF reason = <<>> THEN ~HasEntry(d)
    ELSE /\ HasEntry(d)
         /\ Entry(d) = InventoryViolation(d.Name, "deployment", NoReference, reason)

\* The last of the five checks, in their listed order, whose condition holds.
LastCheckHolding(d) ==
    IF d.ReadyReplicas = 0 THEN <<"no replicas are ready">>
    ELSE IF \E c \in Range(d.Conditions) : ProgressingStalled(c)
    THEN <<(CHOOSE c \in Range(d.Conditions) : ProgressingStalled(c)).Message>>
    ELSE IF \E c \in Range(d.Conditions) : AvailableStalled(c)
    THEN <<"minimum replicas unavailable, could be temporary">>
    ELSE IF d.Labels = {} THEN <<"no labels on deployment">>
    ELSE IF d.Replicas = 0 THEN <<"deployment scaled down to 0 replicas">>
    ELSE <<>>

\* The first two checks end the validation of the deployment; of the remaining
\* ones the last that fires stays: readyReplicas == 0, else the last stalled
\* condition of status.conditions.
TerminalThenLast(d) ==
    IF d.Replicas = 0 THEN <<"deployment scaled down to 0 replicas">>
    ELSE IF d.Labels = {} THEN <<"no labels on deployment">>
    ELSE IF d.ReadyReplicas = 0 THEN <<"no replicas are ready">>
    ELSE IF StalledAt(d) # {} THEN StalledReason(LastStalled(d))
    ELSE <<>>

\* C13 as stated: all five checks are evaluated for every deployment, the violation
\* left is that of the last check in the listed order whose condition holds.
C13_AsStated ==
    (Finished /\ cmd = "dep") =>
        \A k \in 1..Len(ListedDeployments) :
           DeploymentEndsWith(ListedDeployments[k], LastCheckHolding(ListedDeployments[k]))

\* C13, amended: replicas == 0 and, after it, no labels are terminal for the
\* deployment; otherwise the violation left is "no replicas are ready" when
\* readyReplicas == 0 and else that of the last stalled condition in the order of
\* status.conditions; a deployment none of the checks fires for has no violation.
C13_TerminalChecksThenLast ==
    (Finished /\ cmd = "dep") =>
        \A k \in 1..Len(ListedDeployments) :
           DeploymentEndsWith(ListedDeployments[k], TerminalThenLast(ListedDeployments[k]))

C13_Witness ==
    /\ Finished /\ cmd = "dep" /\ Len(ListedDeployments) = 2
    /\ ListedDeployments[1].Replicas = 0 /\ ListedDeployments[1].ReadyReplicas = 0
    /\ ListedDeployments[1].Labels # {}
    /\ Entry(ListedDeployments[1]).Reason = <<"deployment scaled down to 0 replicas">>
    /\ ListedDeployments[2].ReadyReplicas # 0 /\ ListedDeployments[2].Labels # {}
    /\ Len(ListedDeployments[2].Conditions) = 2
    /\ ProgressingStalled(ListedDeployments[2].Conditions[1])
    /\ AvailableStalled(ListedDeployments[2].Conditions[2])
    /\ Entry(ListedDeployments[2]).Reason =
          <<"minimum replicas unavailable, could be temporary">>

\* --- C14 -----------------------------------------------------------------
AddedFor(o) == {k \in 1..Len(added) : added[k][1] = o.Namespace /\ added[k][2] = o.Name}
PodListCallsBy(o) ==
    {k \in 1..Len(calls) : calls[k].op = "pods.list" /\ calls[k].by = <<o.Namespace, o.Name>>}

\* The reasons of the violations recorded for o in this pass.
ReasonsFor(o) == {added[k][3].Reason : k \in AddedFor(o)}

BootstrapService(service) == service.Namespace = "default" /\ service.Name = "kubernetes"

\* What the one branch taken for a service leaves behind in the logs.
OneBranchTaken(service) ==
    IF service.Selector = {} /\ service.Type # "ExternalName"
    THEN /\ ReasonsFor(service) = {<<"no selector">>}
         /\ PodListCallsBy(service) = {}
    ELSE IF service.Type = "LoadBalancer"
    THEN /\ ReasonsFor(service) \subseteq {<<"LoadBalancer service in pending state">>}
         /\ (ReasonsFor(service) # {}) <=> (service.LBIngress = 0)
         /\ PodListCallsBy(service) = {}
    ELSE IF service.Type = "ExternalName"
    THEN /\ ReasonsFor(service) \subseteq {<<service.ExternalName, " is not a valid CNAME">>}
         /\ PodListCallsBy(service) = {}
    ELSE /\ ReasonsFor(service)
               \subseteq {<<"backing workload contains no pods">>,
                          <<"backing service references no workloads: ",
                            "pods.list: i/o timeout">>}
         /\ Cardinality(PodListCallsBy(service)) = 1

\* C14: every service validateServices has visited (the bootstrap service
\* default/kubernetes is skipped before the branches) was taken by exactly one
\* branch, the first in the order selector / LoadBalancer / ExternalName / pod
\* query whose condition holds: it has at most one violation and one pod list
\* call, and a service with an empty selector that is not an ExternalName has "no
\* selector" and nothing else.
C14_OneBranchPerService ==
    (cmd = "svc" /\ pc \in {"loop", "done"}) =>
        \A k \in 1..Len(items) :
           LET service == items[k] IN
           /\ k < i =>
                 /\ Cardinality(AddedFor(service)) <= 1
                 /\ Cardinality(PodListCallsBy(service)) <= 1
                 /\ IF BootstrapService(service)
                    THEN AddedFor(service) = {} /\ PodListCallsBy(service) = {}
                    ELSE OneBranchTaken(service)
           /\ k >= i => AddedFor(service) = {} /\ PodListCallsBy(service) = {}

C14_Witness ==
    /\ cmd = "svc" /\ Finished /\ Len(items) = 2
    /\ items[1].Type = "LoadBalancer" /\ items[1].Selector = {} /\ items[1].LBIngress = 0
    /\ ~BootstrapService(items[1])
    /\ ReasonsFor(items[1]) = {<<"no selector">>}
    /\ items[2].Type = "ClusterIP" /\ items[2].Selector # {}
    /\ Cardinality(PodListCallsBy(items[2])) = 1
    /\ ReasonsFor(items[2]) = {<<"backing workload contains no pods">>}

\* --- C15 -----------------------------------------------------------------
\* The service a path names, when the lookup finds it and it exposes the port.
ResolvedBackend(ns, path) ==
    {k \in 1..Len(services) :
        /\ "services.get" \notin failing
        /\ services[k].Namespace = ns /\ services[k].Name = path.ServiceName
        /\ path.ServicePort \in services[k].Ports}

MatchingPods(ns, sel) ==
    {q \in 1..Len(pods) : pods[q].Namespace = ns /\ sel \subseteq pods[q].Labels}

\* The field f of a reference, "" when the struct has no such field.
Field(ref, f) == IF f \in DOMAIN ref THEN ref[f] ELSE ""

\* The step from a path whose backend resolves, as the claim has it: the pods of
\* the ingress's namespace matching the selector are listed; an empty list and a
\* failed call are recorded with a reference {kind: pods, labelSelector}.
PodCheckAsStated ==
    (AtPath /\ ResolvedBackend(items[i].Namespace, items[i].Rules[r].Paths[p]) # {}) =>
        LET ingress == items[i]
            k == CHOOSE x \in ResolvedBackend(ingress.Namespace, ingress.Rules[r].Paths[p]) : TRUE
            sel == services[k].Selector
            new == SubSeq(calls', Len(calls) + 1, Len(calls'))
            entry == EntryIn(orphans', IngressList, ingress)
        IN  /\ \E c \in Range(new) :
                  c.op = "pods.list" /\ c.ns = ingress.Namespace /\ c.arg = SelectorString(sel)
            /\ ("pods.list" \in failing \/ MatchingPods(ingress.Namespace, sel) = {}) =>
                  /\ Len(added') = Len(added) + 1
                  /\ entry.Reason =
                        (IF "pods.list" \in failing
                         THEN <<"backing service references no workloads">>
                         ELSE <<"backing workload contains no pods">>)
                  /\ Field(entry.Reference, "Kind") = "pods"
                  /\ Field(entry.Reference, "LabelSelector") = SelectorString(sel)
            /\ ("pods.list" \notin failing /\ MatchingPods(ingress.Namespace, sel) # {}) =>
                  added' = added

\* The same step as the code takes it.  In run: the pods are listed; an empty list
\* is recorded with reference {kind: pods, name: the serialized selector}, a
\* failed call with the error text after the reason and the service as reference.
\* In validateIngresses: no pod list call and no violation.
PodCheckStep ==
    (AtPath /\ ResolvedBackend(items[i].Namespace, items[i].Rules[r].Paths[p]) # {}) =>
        LET ingress == items[i]
            path == ingress.Rules[r].Paths[p]
            k == CHOOSE x \in ResolvedBackend(ingress.Namespace, path) : TRUE
            sel == services[k].Selector
            new == SubSeq(calls', Len(calls) + 1, Len(calls'))
            entry == EntryIn(orphans', IngressList, ingress)
        IN  IF cmd = "run"
            THEN /\ Len(new) = 2
                 /\ new[2].op = "pods.list" /\ new[2].ns = ingress.Namespace
                 /\ new[2].arg = SelectorString(sel)
                 /\ "pods.list" \in failing =>
                       /\ Len(added') = Len(added) + 1
                       /\ entry = [Name |-> ingress.Name, Kind |-> "ingress",
                                   Reference |-> [Name |-> path.ServiceName, Kind |-> "service"],
                                   Reason |-> <<"backing service references no workloads: ",
                                                "pods.list: i/o timeout">>]
                 /\ ("pods.list" \notin failing /\ MatchingPods(ingress.Namespace, sel) = {}) =>
                       /\ Len(added') = Len(added) + 1
                       /\ entry = [Name |-> ingress.Name, Kind |-> "ingress",
                                   Reference |-> [Name |-> SelectorString(sel), Kind |-> "pods"],
                                   Reason |-> <<"backing workload contains no pods">>]
                 /\ ("pods.list" \notin failing /\ MatchingPods(ingress.Namespace, sel) # {}) =>
                       added' = added /\ orphans' = orphans
            ELSE /\ Len(new) = 1 /\ new[1].op = "services.get"
                 /\ added' = added /\ orphans' = orphans

\* C15 as stated: for a path whose service exists and exposes the port the ingress
\* validator lists the matching pods of the ingress's namespace and records an
\* empty list as "backing workload contains no pods" and a failed call as "backing
\* service references no workloads", both with reference {kind: pods,
\* labelSelector: the serialized selector}.
C15_AsStated == [][PodCheckAsStated]_vars

\* C15, amended: the ingress pass of run lists the matching pods of the ingress's
\* namespace; an empty list is recorded as "backing workload contains no pods"
\* with reference {kind: pods, name: the serialized selector}, a failed call as
\* "backing service references no workloads: <error>" with reference {kind:
\* service, name: the service name}.  validateIngresses lists no pods and records
\* nothing for such a path.
C15_PodCheckOfRun == [][PodCheckStep]_vars

C15_Witness ==
    /\ cmd = "run" /\ pc = "loop" /\ Len(added) = 1 /\ Len(calls) = 2
    /\ calls[2].op = "pods.list" /\ calls[2].ns = "shop" /\ calls[2].arg = "app=api"
    /\ added[1][3].Reason = <<"backing workload contains no pods">>
    /\ added[1][3].Reference = [Name |-> "app=api", Kind |-> "pods"]
    /\ pods = <<>> /\ failing = {}

\* --- C16 -----------------------------------------------------------------
\* The service a path names, when the lookup finds it.
FoundBackend(ns, path) ==
    {k \in 1..Len(services) :
        /\ "services.get" \notin failing
        /\ services[k].Namespace = ns /\ services[k].Name = path.ServiceName}

\* The decimal form of the port numbers of the backends.
PortText(n) ==
    CASE n = 80 -> <<"8", "0">>
      [] n = 443 -> <<"4", "4", "3">>
      [] n = 8080 -> <<"8", "0", "8", "0">>

\* The step from a path whose service is found: a violation that starts with
\* `prefix`, carries the port number and names the service is recorded exactly
\* when no port of the service has the backend's number, and then no pod list
\* call is issued.
PortStep(prefix) ==
    (AtPath /\ FoundBackend(items[i].Namespace, items[i].Rules[r].Paths[p]) # {}) =>
        LET ingress == items[i]
            path == ingress.Rules[r].Paths[p]
            k == CHOOSE x \in FoundBackend(ingress.Namespace, path) : TRUE
            exposed == \E port \in services[k].Ports : port = path.ServicePort
            newCalls == SubSeq(calls', Len(calls) + 1, Len(calls'))
            newAdded == SubSeq(added', Len(added) + 1, Len(added'))
            portViolations == {e \in Range(newAdded) : \E n \in {80, 443, 8080} :
                                  e[3].Reason = <<prefix>> \o PortText(n)}
        IN  /\ exposed => portViolations = {}
            /\ ~exposed =>
                  /\ Len(newAdded) = 1
                  /\ newAdded[1][1] = ingress.Namespace /\ newAdded[1][2] = ingress.Name
                  /\ newAdded[1][3].Name = ingress.Name
                  /\ newAdded[1][3].Reason = <<prefix>> \o PortText(path.ServicePort)
                  /\ Field(newAdded[1][3].Reference, "Kind") = "service"
                  /\ Field(newAdded[1][3].Reference, "Name") = path.ServiceName
                  /\ Field(newAdded[1][3].Reference, "LabelSelector") = ""
                  /\ EntryIn(orphans', IngressList, ingress) = newAdded[1][3]
                  /\ \A c \in Range(newCalls) : c.op # "pods.list"

\* C16 as stated: the violation reads "service doesn't expose ingress port <N>".
C16_AsStated == [][PortStep("service doesn't expose ingress port ")]_vars

\* C16, amended: for a path whose backend service is found, the violation "Service
\* doesn't expose ingress port <N>" (capital S) with reference {kind: service,
\* name: the service name} is recorded exactly when no port of the service has the
\* number N of the backend, and then no pod list call is issued for the path.
C16_PortNotExposed == [][PortStep("Service doesn't expose ingress port ")]_vars

C16_Witness ==
    /\ cmd = "ing" /\ pc = "loop" /\ Len(added) = 1 /\ Len(calls) = 2
    /\ added[1][3].Reason = <<"Service doesn't expose ingress port ", "8", "0", "8", "0">>
    /\ added[1][3].Reference = [Name |-> "api", Kind |-> "service", LabelSelector |-> ""]
    /\ added[1][1] = "shop"
    /\ calls[1].arg = "api" /\ calls[2].arg = "api"
    /\ i = 1 /\ r = 2 /\ p = 2

\* --- C17 -----------------------------------------------------------------
\* The pod loop stands before an owner reference of a pod outside kube-system.
AtOwner ==
    /\ pc = "pods" /\ i <= Len(items)
    /\ items[i].Namespace # "kube-system"
    /\ r <= Len(items[i].OwnerReferences)

Resolves(op, list, ns, name) ==
    /\ op \notin failing
    /\ \E k \in 1..Len(list) : list[k].Namespace = ns /\ list[k].Name = name

PodViolation(pod, kind, name, reason) ==
    [Name |-> pod.Name, Kind |-> "pod", Reference |-> [Name |-> name, Kind |-> kind],
     Reason |-> <<reason>>]

\* The step over one owner reference of a pod.
OwnerStep ==
    AtOwner =>
        LET pod == items[i]
            owner == pod.OwnerReferences[r]
            newCalls == SubSeq(calls', Len(calls) + 1, Len(calls'))
            newAdded == SubSeq(added', Len(added) + 1, Len(added'))
            recorded == [k \in 1..Len(newAdded) |-> newAdded[k][3]]
        IN  /\ \A k \in 1..Len(newAdded) :
                  /\ newAdded[k][1] = pod.Namespace /\ newAdded[k][2] = pod.Name
                  /\ newAdded[k][4] = "Pods"
            /\ \A c \in Range(newCalls) : c.op \in {"replicasets.get", "deployments.get"}
            /\ IF owner.Kind # "ReplicaSet"
               THEN newCalls = <<>> /\ newAdded = <<>>
               ELSE IF ~Resolves("replicasets.get", replicaSets, pod.Namespace, owner.Name)
               THEN /\ newCalls = <<[op |-> "replicasets.get", ns |-> pod.Namespace,
                                     arg |-> owner.Name, by |-> <<pod.Namespace, pod.Name>>]>>
                    /\ recorded = <<PodViolation(pod, "ReplicaSet", owner.Name,
                                                 "owner is missing")>>
               ELSE LET rs == CHOOSE x \in Range(replicaSets) :
                                 x.Namespace = pod.Namespace /\ x.Name = owner.Name
                        hop == SelectSeq(rs.OwnerReferences, LAMBDA o : o.Kind = "Deployment")
                        lost == SelectSeq(hop, LAMBDA o :
                                   ~Resolves("deployments.get", deployments,
                                             rs.Namespace, o.Name))
                    IN  /\ Len(newCalls) = 1 + Len(hop)
                        /\ newCalls[1].op = "replicasets.get"
                        /\ \A k \in 1..Len(hop) :
                              newCalls[k + 1] =
                                 [op |-> "deployments.get", ns |-> rs.Namespace,
                                  arg |-> hop[k].Name, by |-> <<pod.Namespace, pod.Name>>]
                        /\ recorded = [k \in 1..Len(lost) |->
                                         PodViolation(pod, "deployment", lost[k].Name,
                                                      "owner of the owner is missing")]

\* C17: for a pod outside kube-system and each of its owner references: an owner
\* that is not a ReplicaSet causes no lookup and no violation; a ReplicaSet whose
\* lookup in the pod's namespace fails is recorded as "owner is missing" with
\* reference {kind: ReplicaSet, name} and no Deployment lookup follows; one that
\* is found has each of its Deployment owners looked up, every failed lookup is
\* recorded as "owner of the owner is missing" with reference {kind: deployment,
\* name}, and when all resolve nothing is recorded; no other lookup is ever made.
C17_TwoHopOwnership == [][OwnerStep]_vars

C17_Witness ==
    /\ cmd = "run" /\ Finished /\ failing = {}
    /\ \E k \in 1..Len(items) :
          /\ items[k].Namespace = "shop"
          /\ items[k].OwnerReferences = <<OwnerReference("ReplicaSet", "rs-gone"),
                                           OwnerReference("ReplicaSet", "rs-old")>>
          /\ EntryIn(orphans, "Pods", items[k]) =
                PodViolation(items[k], "deployment", "old", "owner of the owner is missing")
    /\ \E j, k \in 1..Len(added) :
          /\ j < k
          /\ added[j][3].Reason = <<"owner is missing">>
          /\ added[j][3].Reference = [Name |-> "rs-gone", Kind |-> "ReplicaSet"]
          /\ added[k][3].Reason = <<"owner of the owner is missing">>
    /\ Cardinality(CallsOf("deployments.get")) = 2

\* --- C18 -----------------------------------------------------------------
\* The kind of resource a list of the inventory holds violations of.
SubjectKind(list) ==
    CASE list = "Ingresses" -> "ingress"
      [] list = "Pods" -> "pod"
      [] list = "Items" /\ cmd = "ns" -> "namespace"
      [] list = "Items" /\ cmd = "ing" -> "ingress"
      [] list = "Items" /\ cmd = "svc" -> "service"
      [] list = "Items" /\ cmd = "dep" -> "deployment"

\* The resources of a kind in the snapshot, as (namespace, name); a namespace
\* lives under a key of its own.
Subjects(kind) ==
    CASE kind = "namespace" ->
            UNION {{<<"", o.Name>>, <<o.Name, o.Name>>} : o \in Range(namespaces)}
      [] kind = "ingress" -> {<<o.Namespace, o.Name>> : o \in Range(ingresses)}
      [] kind = "service" -> {<<o.Namespace, o.Name>> : o \in Range(services)}
      [] kind = "deployment" -> {<<o.Namespace, o.Name>> : o \in Range(deployments)}
      [] kind = "pod" -> {<<o.Namespace, o.Name>> : o \in Range(pods)}

\* The violation v stored in list under (ns, n) describes that subject.
DescribesSubject(list, ns, n, v) ==
    /\ v.Name = n
    /\ v.Kind = SubjectKind(list)
    /\ <<ns, n>> \in Subjects(SubjectKind(list))

\* C18 as stated: every violation of an inventory stored under (namespace ns, name
\* n) has Name n and the kind of the resource its validator validates, and ns is
\* the namespace the subject lives in.
C18_AsStated ==
    \A ns \in DOMAIN orphans : \A list \in DOMAIN orphans[ns] :
       \A n \in DOMAIN orphans[ns][list] :
          DescribesSubject(list, ns, n, orphans[ns][list][n])

\* --- C19 -----------------------------------------------------------------
\* The keys of an inventory of either revision: (namespace, list, name).
AllKeys(inv) ==
    UNION {UNION {{<<ns, list, n>> : n \in DOMAIN inv[ns][list]} : list \in DOMAIN inv[ns]}
           : ns \in DOMAIN inv}

\* Every namespace key holds at least one violation.
NoEmptyNamespace(inv) == \A ns \in DOMAIN inv : \E key \in AllKeys(inv) : key[1] = ns

\* A step of a pass keeps every entry of the inventory; one that records nothing
\* leaves the inventory as it is.
InventoryGrows ==
    /\ AllKeys(orphans) \subseteq AllKeys(orphans')
    /\ added' = added => orphans' = orphans
    /\ \A key \in AllKeys(orphans) :
          (\A k \in (Len(added) + 1)..Len(added') :
              <<added'[k][1], added'[k][2]>> # <<key[1], key[3]>>)
             => orphans'[key[1]][key[2]][key[3]] = orphans[key[1]][key[2]][key[3]]

\* C19: in a pass no step removes an entry of the inventory, a step that finds
\* nothing (a healthy rule or path after a broken one) leaves it untouched, every
\* namespace key holds at least one violation, and the inventory a pass ends with
\* is empty, and reported as such, exactly when no check fired.
C19_InventoryOnlyGrows ==
    [][/\ InventoryGrows
       /\ NoEmptyNamespace(orphans')
       /\ Finished' => /\ (DOMAIN orphans' = {}) <=> (added' = <<>>)
                       /\ report'[1].clean <=> (added' = <<>>)]_vars

C19_Witness ==
    /\ cmd = "ing" /\ Finished
    /\ Len(items) = 1 /\ Len(items[1].Rules) = 2
    /\ Len(calls) = 2 /\ CallFailed(calls[1]) /\ ~CallFailed(calls[2])
    /\ Len(added) = 1
    /\ items[1].Rules[2].Paths = <<[ServiceName |-> "api", ServicePort |-> 80]>>
    /\ Entry(items[1]).Reason = <<"references a missing service: ", "not found">>
    /\ ~report[1].clean

(***************************************************************************)
(* Specifications                                                          *)
(***************************************************************************)
Next ==
    \/ List
    \/ ListFails
    \/ Return
    \/ ValidateNamespace
    \/ ValidateService
    \/ ValidateDeployment
    \/ IngressNoHTTP
    \/ IngressPath
    \/ IngressNextRule
    \/ IngressNext
    \/ RunIngressNoHTTP
    \/ RunIngressPath
    \/ RunListPods
    \/ RunListPodsFails
    \/ PodSkip
    \/ PodOwner
    \/ PodNext
    \/ RunReturn

Spec == Init /\ [][Next]_vars

\* The command run twice on the same snapshot.
NextTwice == Next \/ Rerun

SpecTwice == Init /\ [][NextTwice]_vars

====
